---- MODULE Spec2Model ----
(***************************************************************************)
(* Model of function_app.py: the Event Hub triggered function that turns   *)
(* one batch payload into (fqdn, hour) groups and uploads each group as a  *)
(* gzip-compressed NDJSON block blob into a per-FQDN container.            *)
(*                                                                         *)
(* Strings that the code inspects character by character (host names,      *)
(* container names) are sequences of one-character strings.  Absent values *)
(* (Python None) are the value None.                                       *)
(***************************************************************************)
EXTENDS Integers, Sequences, FiniteSets, TLC

VARIABLES
    config,      \* which of LOG_STORAGE_CONNECTION / LOG_STORAGE_ACCOUNT_NAME is set
    blob_svc,    \* the cached _blob_svc client: TRUE once created
    containers,  \* storage account: names of the containers that exist
    blobs,       \* storage account: <<container, blob name>> -> stored blob
    faults,      \* storage faults injected so far
    inv,         \* per invocation of main: its locals and its position
    tcn          \* to_container_name applied to a string, and to its own output

vars == <<config, blob_svc, containers, blobs, faults, inv, tcn>>

None == "None"

\* ------------------------------------------------------------------------
\* Bounds of the model
\* ------------------------------------------------------------------------
MaxLen == 3          \* longest short input string of to_container_name
PadFrom == 55        \* long inputs: PadFrom..PadFrom+PadSpan copies of "a" ...
PadSpan == 5
MaxTail == 2         \* ... followed by at most MaxTail further characters
MaxRecs == 2         \* records per generated batch
MaxGroupRecs == 3    \* records per batch where only the grouping is run
MaxRuns == 2         \* deliveries of one batch (the first and the replays)
MaxFaults == 1       \* storage calls that fail for a reason other than "exists"

\* ------------------------------------------------------------------------
\* Characters and strings
\* ------------------------------------------------------------------------
Uppers == <<"A","B","C","D","E","F","G","H","I","J","K","L","M",
            "N","O","P","Q","R","S","T","U","V","W","X","Y","Z">>
Lowers == <<"a","b","c","d","e","f","g","h","i","j","k","l","m",
            "n","o","p","q","r","s","t","u","v","w","x","y","z">>
Digits == {"0","1","2","3","4","5","6","7","8","9"}

Range(s) == {s[i] : i \in DOMAIN s}

\* NON_ALLOWED = [^a-z0-9-]+ : the characters outside the class
IsAllowed(c) == c \in Range(Lowers) \cup Digits \cup {"-"}

LowerChar(c) ==
    IF \E i \in DOMAIN Uppers : Uppers[i] = c
    THEN Lowers[CHOOSE i \in DOMAIN Uppers : Uppers[i] = c]
    ELSE c

\* str.lower()
Lower(s) == [i \in 1..Len(s) |-> LowerChar(s[i])]

\* str.replace(".", "-")
ReplaceDots(s) == [i \in 1..Len(s) |-> IF s[i] = "." THEN "-" ELSE s[i]]

RECURSIVE LStrip(_)
LStrip(s) == IF s # <<>> /\ Head(s) = "-" THEN LStrip(Tail(s)) ELSE s

RECURSIVE RStrip(_)
RStrip(s) ==
    IF s # <<>> /\ s[Len(s)] = "-" THEN RStrip(SubSeq(s, 1, Len(s) - 1)) ELSE s

\* str.strip("-")
Strip(s) == RStrip(LStrip(s))

RECURSIVE DropNonAllowed(_)
DropNonAllowed(s) ==
    IF s # <<>> /\ ~IsAllowed(Head(s)) THEN DropNonAllowed(Tail(s)) ELSE s

\* NON_ALLOWED.sub("-", s): every maximal run of characters outside
\* [a-z0-9-] becomes one hyphen
RECURSIVE NonAllowedSub(_)
NonAllowedSub(s) ==
    IF s = <<>> THEN <<>>
    ELSE IF IsAllowed(Head(s)) THEN <<Head(s)>> \o NonAllowedSub(Tail(s))
    ELSE <<"-">> \o NonAllowedSub(DropNonAllowed(Tail(s)))

\* MULTI_HYPHEN.sub("-", s): every run of two or more hyphens becomes one
RECURSIVE MultiHyphenSub(_)
MultiHyphenSub(s) ==
    IF s = <<>> THEN <<>>
    ELSE IF Head(s) = "-" THEN <<"-">> \o MultiHyphenSub(LStrip(Tail(s)))
    ELSE <<Head(s)>> \o MultiHyphenSub(Tail(s))

\* s[:n]
Prefix(s, n) == IF Len(s) > n THEN SubSeq(s, 1, n) ELSE s

\* ------------------------------------------------------------------------
\* FQDN -> container naming
\* ------------------------------------------------------------------------
\* LOG_CONTAINER_PREFIX, at its default "logs-"
CONTAINER_PREFIX == <<"l","o","g","s","-">>

MinNameLen == 3
MaxNameLen == 63

UnkPrefix == <<"u","n","k","-">>
Unknown == <<"u","n","k","n","o","w","n">>
LogsUnknown == <<"l","o","g","s","-","u","n","k","n","o","w","n">>

\* lines 226-231: the normalised base of the name
ContainerBase(fqdn) ==
    LET b1 == ReplaceDots(Lower(fqdn))
        b2 == Strip(NonAllowedSub(b1))
        b3 == MultiHyphenSub(b2)
    IN  IF Len(b3) < MinNameLen
        THEN (IF b3 # <<>> THEN UnkPrefix \o b3 ELSE Unknown)
        ELSE b3

\* lines 233-244 with the length limit as a parameter
ContainerNameOf(fqdn, limit) ==
    LET n1 == Lower(CONTAINER_PREFIX \o ContainerBase(fqdn))
        n2 == Strip(NonAllowedSub(n1))
        n3 == MultiHyphenSub(n2)
        n4 == IF Len(n3) > limit THEN RStrip(Prefix(n3, limit)) ELSE n3
        n5 == Strip(n4)
    IN  IF Len(n5) < MinNameLen THEN LogsUnknown ELSE n5

\* faulty variant: the limit is off by one (name[:64])
to_container_name_off_by_one(fqdn) == ContainerNameOf(fqdn, MaxNameLen + 1)

to_container_name(fqdn) == ContainerNameOf(fqdn, MaxNameLen)

\* ------------------------------------------------------------------------
\* JSON values, strings and datetimes as the code sees them
\* ------------------------------------------------------------------------
\* A value is tagged with its Python type.  Strings come in the kinds the
\* code tells apart:
\*   text  - a log line; host is what HOST_REGEX captures in it (<<>> when
\*           it does not match) and xfh is the X-Forwarded-Host header of the
\*           JSON object that trails it (<<>> when there is none)
\*   iso   - an ISO 8601 timestamp with zone "Z", an offset, or none
\*   junk  - a non-empty string that is neither
\*   blank - a string of white space only
\*   dump  - json.dumps of a record
\*   str   - any other string, given by its characters
NoneVal == [t |-> "none"]
Num == [t |-> "num"]
Blank == [t |-> "blank"]
Junk == [t |-> "junk"]
Text(host, xfh) == [t |-> "text", host |-> host, xfh |-> xfh]
Iso(d, h, mi, zone, off) ==
    [t |-> "iso", d |-> d, h |-> h, mi |-> mi, zone |-> zone, off |-> off]
Dict(d) == [t |-> "dict", d |-> d]
List(items) == [t |-> "list", items |-> items]
Dump(record) == [t |-> "dump", d |-> record]
Str(chars) == [t |-> "str", s |-> chars]

IsStr(v) == v.t \in {"text", "iso", "junk", "blank", "dump", "str"}

\* isinstance(v, str) and v.strip()
IsNonBlankStr(v) == IsStr(v) /\ v.t # "blank"

\* dict.get(k)
Get(d, k) == IF k \in DOMAIN d THEN d[k] ELSE NoneVal

\* a datetime: calendar day, hour and minute as written, and the UTC offset
\* in minutes
DateTime(d, h, mi, tz) == [d |-> d, h |-> h, mi |-> mi, tz |-> tz]

Some(v) == [some |-> TRUE, v |-> v]
Nothing == [some |-> FALSE]

\* ------------------------------------------------------------------------
\* Payload normalization helpers
\* ------------------------------------------------------------------------
\* A payload is its text together with what json.loads makes of it
\* (json = FALSE: JSONDecodeError).
RawRecord(payload) == "_raw" :> payload.text

IsDict(v) == v.t = "dict"
HasRecordsList(v) == IsDict(v) /\ Get(v.d, "records").t = "list"

\* [r for r in item["records"] if isinstance(r, dict)]
RECURSIVE DictsOf(_)
DictsOf(items) ==
    IF items = <<>> THEN <<>>
    ELSE (IF IsDict(Head(items)) THEN <<Head(items).d>> ELSE <<>>)
             \o DictsOf(Tail(items))

\* the loop of case 1 (lines 124-128)
RECURSIVE FlattenItems(_)
FlattenItems(items) ==
    IF items = <<>> THEN <<>>
    ELSE LET item == Head(items)
         IN  (IF HasRecordsList(item) THEN DictsOf(item.d["records"].items)
              ELSE IF IsDict(item) THEN <<item.d>>
              ELSE <<>>)
                 \o FlattenItems(Tail(items))

extract_records(payload) ==
    IF ~payload.json THEN <<RawRecord(payload)>>
    ELSE IF payload.obj.t = "list" THEN FlattenItems(payload.obj.items)
    ELSE IF HasRecordsList(payload.obj)
        THEN DictsOf(payload.obj.d["records"].items)
    ELSE IF IsDict(payload.obj) THEN <<payload.obj.d>>
    ELSE <<RawRecord(payload)>>

MessageKeys == <<"resultDescription", "ResultDescription", "message", "Message", "_raw">>

RECURSIVE FirstMessage(_, _)
FirstMessage(record, keys) ==
    IF keys = <<>> THEN Dump(record)
    ELSE IF IsNonBlankStr(Get(record, Head(keys))) THEN Get(record, Head(keys))
    ELSE FirstMessage(record, Tail(keys))

pick_message(record) == FirstMessage(record, MessageKeys)

TimeKeys == <<"time", "Time", "timestamp", "Timestamp">>

\* datetime.fromisoformat on a string with a trailing Z replaced by +00:00;
\* a value without zone is taken as UTC (lines 167-174)
ParseIso(v) ==
    DateTime(v.d, v.h, v.mi, IF v.zone = "offset" THEN v.off ELSE 0)

RECURSIVE FirstTime(_, _)
FirstTime(record, keys) ==
    IF keys = <<>> THEN Nothing
    ELSE LET v == Get(record, Head(keys))
         IN  IF IsNonBlankStr(v) /\ v.t = "iso" THEN Some(ParseIso(v))
             ELSE FirstTime(record, Tail(keys))

extract_record_time(record) == FirstTime(record, TimeKeys)

\* ------------------------------------------------------------------------
\* FQDN extraction
\* ------------------------------------------------------------------------
RECURSIVE BeforeColon(_)
BeforeColon(s) ==
    IF s = <<>> \/ Head(s) = ":" THEN <<>> ELSE <<Head(s)>> \o BeforeColon(Tail(s))

\* host.split(":", 1)[0] when ":" in host; host or "unknown"
HostOrUnknown(host) ==
    LET h == IF ":" \in Range(host) THEN BeforeColon(host) ELSE host
    IN  IF h = <<>> THEN Unknown ELSE h

XfhKeys == <<"X-Forwarded-Host", "x-forwarded-host", "X-FORWARDED-HOST">>

RECURSIVE FirstHeader(_, _)
FirstHeader(headers, keys) ==
    IF keys = <<>> THEN <<>>
    ELSE LET v == Get(headers, Head(keys))
         IN  IF v.t = "str" /\ v.s # <<>> THEN v.s
             ELSE FirstHeader(headers, Tail(keys))

\* the X-Forwarded-Host value found in the JSON that starts at the first "{"
\* of the message (lines 191-205); <<>> when there is none
ForwardedHost(msg) ==
    IF msg.t = "text" THEN msg.xfh
    ELSE IF msg.t = "dump" /\ IsDict(Get(msg.d, "headers"))
        THEN FirstHeader(msg.d["headers"].d, XfhKeys)
    ELSE <<>>

extract_fqdn(record, msg) ==
    IF ForwardedHost(msg) # <<>> THEN HostOrUnknown(Lower(ForwardedHost(msg)))
    ELSE IF msg.t = "text" /\ msg.host # <<>> THEN HostOrUnknown(Lower(msg.host))
    ELSE Unknown

\* ------------------------------------------------------------------------
\* Delivery metadata
\* ------------------------------------------------------------------------
\* evt.metadata is [dict |-> FALSE] when it is no dict, else a dict whose
\* values are strings or, under PartitionContext, a nested dict.
MdStr(x) == [t |-> "str", s |-> x]
MdDict(d) == [t |-> "dict", d |-> d]

RECURSIVE FirstKey(_, _)
FirstKey(d, keys) ==
    IF keys = <<>> THEN None
    ELSE IF Head(keys) \in DOMAIN d THEN d[Head(keys)].s
    ELSE FirstKey(d, Tail(keys))

get_partition_id(md) ==
    IF ~md.dict THEN None
    ELSE IF /\ "PartitionContext" \in DOMAIN md.d
            /\ md.d["PartitionContext"].t = "dict"
            /\ "PartitionId" \in DOMAIN md.d["PartitionContext"].d
        THEN md.d["PartitionContext"].d["PartitionId"].s
    ELSE FirstKey(md.d, <<"PartitionId", "partitionId", "x-opt-partition-id", "partition_id">>)

\* <<offset, sequence_number>>
get_offset_info(md) ==
    IF ~md.dict THEN <<None, None>>
    ELSE <<FirstKey(md.d, <<"offset", "x-opt-offset", "Offset">>),
           FirstKey(md.d, <<"sequence_number", "x-opt-sequence-number", "SequenceNumber">>)>>

\* ------------------------------------------------------------------------
\* Blob naming
\* ------------------------------------------------------------------------
\* truthiness of an Optional[str]
Truthy(x) == x # None /\ x # ""

Minutes(dt) == (dt.d * 24 + dt.h) * 60 + dt.mi

\* the hour of the instant a datetime denotes, counted in UTC
UtcHour(dt) == (Minutes(dt) - dt.tz) \div 60

\* strftime("%Y-%m-%d-%H"): the date and hour fields as they stand
HourKeyOf(dt) == <<dt.d, dt.h>>

\* datetime.isoformat(): the fields and the offset
IsoFormat(dt) == <<dt.d, dt.h, dt.mi, dt.tz>>

\* The path y=/m=/d=/h=/m=00/p=<partition>/part-o<start>-o<end>.ndjson.gz as
\* its parts.  Without both offsets, start and end are the timestamp of the
\* datetime passed in (strftime("%Y%m%d%H%M%S") and the milliseconds), kept
\* here as stamp.
blob_name_with_offsets(now_utc, partition_id, start_offset, end_offset) ==
    LET given == Truthy(start_offset) /\ Truthy(end_offset)
    IN  [ymdh |-> <<now_utc.d, now_utc.h>>,
         minute |-> "00",
         p |-> IF Truthy(partition_id) THEN partition_id ELSE "unknown",
         start |-> IF given THEN start_offset ELSE "",
         end |-> IF given THEN end_offset ELSE "",
         stamp |-> IF given THEN <<>> ELSE <<now_utc.d, now_utc.h, now_utc.mi>>]

\* ------------------------------------------------------------------------
\* Grouping (main, lines 436-462)
\* ------------------------------------------------------------------------
\* lines 437-461: the line object of one record
LineObj(r, now_utc, partition_id, offset, sequence_number) ==
    LET msg == pick_message(r)
        t == extract_record_time(r)
        record_time == IF t.some THEN t.v ELSE now_utc
    IN  [time_utc |-> IsoFormat(record_time),
         fqdn |-> extract_fqdn(r, msg),
         partition_id |-> partition_id,
         offset |-> offset,
         sequence_number |-> sequence_number,
         message |-> msg,
         record_time |-> record_time]

\* group_key = (fqdn, hour_key)
GroupKey(line) == <<line.fqdn, HourKeyOf(line.record_time)>>

\* faulty variant: the group's list is created afresh for every record
AddLine_restart(groups, line) ==
    IF \E k \in DOMAIN groups : groups[k].key = GroupKey(line)
    THEN LET k == CHOOSE k \in DOMAIN groups : groups[k].key = GroupKey(line)
         IN  [groups EXCEPT ![k].recs = <<line>>]
    ELSE Append(groups, [key |-> GroupKey(line), recs |-> <<line>>])

\* lines 448-462: records_by_fqdn_and_hour is a dict, which keeps its keys in
\* the order of first insertion: a sequence of [key, recs]
AddLine(groups, line) ==
    IF \E k \in DOMAIN groups : groups[k].key = GroupKey(line)
    THEN LET k == CHOOSE k \in DOMAIN groups : groups[k].key = GroupKey(line)
         IN  [groups EXCEPT ![k].recs = Append(@, line)]
    ELSE Append(groups, [key |-> GroupKey(line), recs |-> <<line>>])

RECURSIVE GroupLines(_, _)
GroupLines(groups, lines) ==
    IF lines = <<>> THEN groups
    ELSE GroupLines(AddLine(groups, Head(lines)), Tail(lines))

\* lines 482-488: the NDJSON content, one line per record without the
\* internal _record_time field
OutputObj(line) ==
    [time_utc |-> line.time_utc, fqdn |-> line.fqdn,
     partition_id |-> line.partition_id, offset |-> line.offset,
     sequence_number |-> line.sequence_number, message |-> line.message]

Content(recs) == [k \in 1..Len(recs) |-> OutputObj(recs[k])]

\* gzip.compress: the member header carries the time of compression
GzipCompress(content, clock) == [mtime |-> clock, data |-> content]

\* ------------------------------------------------------------------------
\* Storage client
\* ------------------------------------------------------------------------
\* blob_service_client(): <<raised, _blob_svc afterwards>>
blob_service_client(cfg, cached) ==
    IF cached THEN [raised |-> None, svc |-> TRUE]
    ELSE IF cfg = "connection" THEN [raised |-> None, svc |-> TRUE]
    ELSE IF cfg # "account" THEN [raised |-> "RuntimeError", svc |-> FALSE]
    ELSE [raised |-> None, svc |-> TRUE]

\* ContainerClient.create_container: creates the container, or raises
\* ResourceExistsError when it is there already
create_container(existing, name) ==
    IF name \in existing
    THEN [raised |-> "ResourceExistsError", containers |-> existing]
    ELSE [raised |-> None, containers |-> existing \cup {name}]

\* faulty variant: ResourceExistsError is not caught
ensure_container_uncaught(existing, name) == create_container(existing, name)

\* ensure_container, once the client is at hand (lines 308-312)
ensure_container(existing, name) ==
    LET r == create_container(existing, name)
    IN  IF r.raised = "ResourceExistsError"
        THEN [raised |-> None, containers |-> r.containers]
        ELSE r

\* BlobClient.upload_blob(data, overwrite=True)
upload_blob(store, key, data) ==
    [k \in DOMAIN store \cup {key} |-> IF k = key THEN data ELSE store[k]]

\* ------------------------------------------------------------------------
\* Function entrypoint: one invocation of main
\* ------------------------------------------------------------------------
Invocations == {"i1", "i2"}

IdleInv ==
    [pc |-> "idle", payload |-> NoneVal, md |-> NoneVal, now_utc |-> NoneVal,
     records |-> <<>>, partition_id |-> None, offset |-> None,
     sequence_number |-> None, groups |-> <<>>, gi |-> 1, err |-> None,
     run |-> 0, completed |-> 0, creates |-> <<>>, writes |-> <<>>,
     first |-> [set |-> FALSE]]

Group(v) == v.groups[v.gi]
ContainerOf(g) == to_container_name(g.key[1])

\* variant with a cache: a container ensured earlier in the invocation is
\* not ensured again
EnterGroup_cached(creates, container) ==
    IF \E k \in DOMAIN creates : creates[k].container = container
    THEN "upload" ELSE "ensure"

\* lines 466-468: every group starts with a call of ensure_container
EnterGroup(creates, container) == "ensure"

\* the loop header of line 466: the next group, or the log line after the loop
NextStep(groups, gi, creates) ==
    IF gi <= Len(groups)
    THEN EnterGroup(creates, ContainerOf(groups[gi]))
    ELSE "log"

\* lines 423-462: normalise, read the metadata, take the clock, group
Started(prev, p, md, now) ==
    LET records == extract_records(p)
        pid == get_partition_id(md)
        oi == get_offset_info(md)
        lines == [k \in 1..Len(records) |->
                    LineObj(records[k], now, pid, oi[1], oi[2])]
        groups == GroupLines(<<>>, lines)
    IN  [pc |-> NextStep(groups, 1, <<>>), payload |-> p, md |-> md,
         now_utc |-> now, records |-> records, partition_id |-> pid,
         offset |-> oi[1], sequence_number |-> oi[2], groups |-> groups,
         gi |-> 1, err |-> None, run |-> prev.run + 1,
         completed |-> prev.completed, creates |-> <<>>, writes |-> <<>>,
         first |-> prev.first]

Begin(i, p, md, now) ==
    /\ inv[i].pc = "idle"
    /\ inv' = [inv EXCEPT ![i] = Started(@, p, md, now)]
    /\ UNCHANGED <<config, blob_svc, containers, blobs, faults, tcn>>

\* The trigger delivers the same batch again, after a failure or as a
\* duplicate: same payload, same metadata, a later clock.
Redeliver(i, now) ==
    /\ inv[i].pc \in {"done", "failed"}
    /\ inv[i].run < MaxRuns
    /\ Minutes(now) > Minutes(inv[i].now_utc)
    /\ inv' = [inv EXCEPT ![i] = Started(@, @.payload, @.md, now)]
    /\ UNCHANGED <<config, blob_svc, containers, blobs, faults, tcn>>

Call(g, c, existed) == [fqdn |-> g.key[1], container |-> c, existed |-> existed]

\* line 468: ensure_container(container)
EnsureContainer(i) ==
    LET v == inv[i]
        c == ContainerOf(Group(v))
        client == blob_service_client(config, blob_svc)
        r == ensure_container(containers, c)
    IN  /\ v.pc = "ensure"
        /\ blob_svc' = client.svc
        /\ IF client.raised # None
           THEN /\ inv' = [inv EXCEPT ![i].pc = "failed", ![i].err = client.raised]
                /\ UNCHANGED containers
           ELSE /\ containers' = r.containers
                /\ inv' = [inv EXCEPT
                      ![i].pc = IF r.raised = None THEN "upload" ELSE "failed",
                      ![i].err = r.raised,
                      ![i].creates = Append(@, Call(Group(v), c, c \in containers))]
        /\ UNCHANGED <<config, blobs, faults, tcn>>

\* create_container raises something other than ResourceExistsError
EnsureContainerFails(i) ==
    LET v == inv[i]
        c == ContainerOf(Group(v))
        client == blob_service_client(config, blob_svc)
    IN  /\ v.pc = "ensure"
        /\ client.raised = None
        /\ faults < MaxFaults
        /\ faults' = faults + 1
        /\ blob_svc' = client.svc
        /\ inv' = [inv EXCEPT
              ![i].pc = "failed", ![i].err = "HttpResponseError",
              ![i].creates = Append(@, Call(Group(v), c, c \in containers))]
        /\ UNCHANGED <<config, containers, blobs, tcn>>

\* line 480: the blob name of the current group
BlobNameOf(v) ==
    blob_name_with_offsets(Group(v).recs[1].record_time, v.partition_id,
                           v.offset, v.offset)

\* lines 472-491: name the blob, build the content, upload it
Upload(i) ==
    LET v == inv[i]
        c == ContainerOf(Group(v))
        content == Content(Group(v).recs)
    IN  /\ v.pc = "upload"
        /\ blobs' = upload_blob(blobs, <<c, BlobNameOf(v)>>,
                                GzipCompress(content, v.now_utc))
        /\ inv' = [inv EXCEPT
              ![i].writes = Append(@, [container |-> c, blob |-> BlobNameOf(v),
                                       data |-> content]),
              ![i].gi = @ + 1,
              ![i].pc = NextStep(v.groups, v.gi + 1, v.creates)]
        /\ UNCHANGED <<config, blob_svc, containers, faults, tcn>>

\* upload_blob raises
UploadFails(i) ==
    /\ inv[i].pc = "upload"
    /\ faults < MaxFaults
    /\ faults' = faults + 1
    /\ inv' = [inv EXCEPT ![i].pc = "failed", ![i].err = "HttpResponseError"]
    /\ UNCHANGED <<config, blob_svc, containers, blobs, tcn>>

\* lines 493-499: the log line; main returns
Finish(i) ==
    /\ inv[i].pc = "log"
    /\ inv' = [inv EXCEPT
          ![i].pc = "done",
          ![i].completed = @ + 1,
          ![i].first = IF inv[i].completed = 0
                       THEN [set |-> TRUE, writes |-> inv[i].writes, blobs |-> blobs]
                       ELSE @]
    /\ UNCHANGED <<config, blob_svc, containers, blobs, faults, tcn>>

\* ------------------------------------------------------------------------
\* Inputs of main
\* ------------------------------------------------------------------------
HostA == <<"a", ".", "b">>
HostB == <<"a", "-", "b">>
HostAPort == <<"A", ".", "b", ":", "8">>

\* 10:30 UTC, 10:30 at +05:00 (05:30 UTC), 11:10 without zone
TimeA == Iso(1, 10, 30, "Z", 0)
TimeB == Iso(1, 10, 30, "offset", 300)
TimeC == Iso(1, 11, 10, "naive", 0)

Rec(key, host, tkey, ts) == (key :> Text(host, <<>>)) @@ (tkey :> ts)

RecA == Rec("resultDescription", HostAPort, "time", TimeA)
RecB == Rec("resultDescription", HostA, "time", TimeB)
RecC == Rec("message", HostB, "Time", TimeA)
RecD == Rec("Message", HostA, "timestamp", TimeC)
RecE == Rec("resultDescription", HostA, "time", Junk)

RecordAtoms == {RecA, RecB, RecC, RecD, RecE}

RecSeqs(n) == UNION {[1..k -> RecordAtoms] : k \in 0..n}

Dicts(s) == [k \in 1..Len(s) |-> Dict(s[k])]

NoText == Text(<<>>, <<>>)
Json(obj) == [json |-> TRUE, obj |-> obj, text |-> NoText]
NonJson(text) == [json |-> FALSE, obj |-> NoneVal, text |-> text]

\* [ { "records": [ ... ] } ]
Wrapped(s) == Json(List(<<Dict("records" :> List(Dicts(s)))>>))

OddPayloads ==
    { NonJson(Text(HostA, <<>>)), NonJson(NoText), NonJson(Text(HostB, HostAPort)),
      Json(Num), Json(List(<<Num>>)), Json(Dict("records" :> List(<<Num>>))),
      Json(Dict("time" :> TimeA)),
      Json(Dict("headers" :> Dict("x-forwarded-host" :> Str(HostAPort)))),
      Json(Dict(("message" :> Blank) @@ ("_raw" :> Text(HostB, <<>>)) @@ ("time" :> Blank)
                 @@ ("Timestamp" :> TimeC))) }
        \cup {Json(Dict(r)) : r \in RecordAtoms}
        \cup {Json(Dict("records" :> List(<<Num, Dict(r)>>))) : r \in RecordAtoms}
        \cup {Json(List(<<Num, Dict(r), Dict("records" :> List(<<Dict(r), Num>>))>>)) :
                r \in RecordAtoms}

Payloads == {Wrapped(s) : s \in RecSeqs(MaxRecs)} \cup OddPayloads

GroupPayloads == {Wrapped(s) : s \in RecSeqs(MaxGroupRecs)}

\* batches of one record, and one of two Groups for one container
RacePayloads ==
    {Wrapped(<<r>>) : r \in RecordAtoms} \cup {Wrapped(<<RecA, RecD>>), NonJson(NoText)}

MdFull ==
    [dict |-> TRUE,
     d |-> ("PartitionContext" :> MdDict("PartitionId" :> MdStr("0")))
            @@ ("offset" :> MdStr("5")) @@ ("SequenceNumber" :> MdStr("7"))]
MdFlat == [dict |-> TRUE, d |-> "x-opt-partition-id" :> MdStr("1")]
MdNone == [dict |-> FALSE, d |-> <<>>]

Metadatas == {MdFull, MdFlat, MdNone}

\* readings of datetime.now(timezone.utc)
Clock == {DateTime(1, 10, 5, 0), DateTime(1, 10, 50, 0), DateTime(1, 11, 20, 0)}

\* ------------------------------------------------------------------------
\* Inputs of to_container_name
\* ------------------------------------------------------------------------
Alphabet == {"a", "Z", "9", ".", "-", "_"}

Strings(n) == UNION {[1..k -> Alphabet] : k \in 0..n}

Pad(n) == [i \in 1..n |-> "a"]

NameInputs ==
    Strings(MaxLen)
        \cup {Pad(n) \o s : n \in PadFrom..(PadFrom + PadSpan), s \in Strings(MaxTail)}

\* ------------------------------------------------------------------------
\* Specification of the naming function alone: pick an input, apply
\* to_container_name, apply it again to its own output.
\* ------------------------------------------------------------------------
MainIdle ==
    /\ config = "connection"
    /\ blob_svc = FALSE
    /\ containers = {}
    /\ blobs = <<>>
    /\ faults = 0
    /\ inv = [i \in Invocations |-> IdleInv]

NameIdle == [pc |-> "off", x |-> <<>>, name |-> <<>>, again |-> <<>>]

NameInit ==
    /\ MainIdle
    /\ \E x \in NameInputs : tcn = [pc |-> "in", x |-> x, name |-> <<>>, again |-> <<>>]

NameOnce ==
    /\ tcn.pc = "in"
    /\ tcn' = [tcn EXCEPT !.pc = "once", !.name = to_container_name(tcn.x)]
    /\ UNCHANGED <<config, blob_svc, containers, blobs, faults, inv>>

NameAgain ==
    /\ tcn.pc = "once"
    /\ tcn' = [tcn EXCEPT !.pc = "twice", !.again = to_container_name(tcn.name)]
    /\ UNCHANGED <<config, blob_svc, containers, blobs, faults, inv>>

NameNext == NameOnce \/ NameAgain

SpecName == NameInit /\ [][NameNext]_vars

\* C6 as stated: to_container_name is idempotent, f(f(x)) = f(x).
C6_Idempotent == tcn.pc = "twice" => tcn.again = tcn.name

\* C6 as amended: the output is a valid container name (3..63 characters of
\* [a-z0-9-], no hyphen at either end) and a second application puts the
\* prefix in front of it once more, cut to 63 characters with the hyphens
\* at the cut removed: f(f(x)) = strip((prefix + f(x))[:63]).
C6_PrefixedAgain ==
    tcn.pc = "twice" =>
        /\ Len(tcn.name) \in 3..63
        /\ \A i \in DOMAIN tcn.name : IsAllowed(tcn.name[i])
        /\ tcn.name[1] # "-" /\ tcn.name[Len(tcn.name)] # "-"
        /\ tcn.again = RStrip(Prefix(<<"l","o","g","s","-">> \o tcn.name, 63))

\* C6 witness: a long input: the first name is cut at 63 and the second application
\* cuts again
C6_Witness ==
    /\ tcn.pc = "twice"
    /\ Len(tcn.x) + Len(CONTAINER_PREFIX) > 63
    /\ Len(tcn.name) = 63
    /\ tcn.again # tcn.name

\* ------------------------------------------------------------------------
\* Specification of one batch: delivered, processed group by group with
\* storage calls that may fail, and delivered again.
\* ------------------------------------------------------------------------
Init ==
    /\ config \in {"connection", "account", "none"}
    /\ blob_svc = FALSE
    /\ containers = {}
    /\ blobs = <<>>
    /\ faults = 0
    /\ inv = [i \in Invocations |-> IdleInv]
    /\ tcn = NameIdle

Deliver ==
    \E p \in Payloads, md \in {MdFull, MdNone}, now \in Clock : Begin("i1", p, md, now)
Replay == \E now \in Clock : Redeliver("i1", now)
Ensure == EnsureContainer("i1")
EnsureFault == EnsureContainerFails("i1")
Write == Upload("i1")
WriteFault == UploadFails("i1")
Return == Finish("i1")

Next == Deliver \/ Replay \/ Ensure \/ EnsureFault \/ Write \/ WriteFault \/ Return

Spec == Init /\ [][Next]_vars

\* ------------------------------------------------------------------------
\* Specification of the grouping alone, on longer batches.
\* ------------------------------------------------------------------------
GroupInit == MainIdle /\ tcn = NameIdle

GroupDeliver ==
    \E p \in GroupPayloads, md \in Metadatas, now \in Clock : Begin("i1", p, md, now)

SpecGroup == GroupInit /\ [][GroupDeliver]_vars

\* ------------------------------------------------------------------------
\* Specification of two invocations that the trigger runs in parallel, with
\* a storage account that is configured and does not fail.
\* ------------------------------------------------------------------------
RaceInit == MainIdle /\ tcn = NameIdle

RaceDeliver ==
    \E i \in Invocations, p \in RacePayloads, now \in Clock : Begin(i, p, MdFull, now)
RaceEnsure == \E i \in Invocations : EnsureContainer(i)
RaceWrite == \E i \in Invocations : Upload(i)
RaceReturn == \E i \in Invocations : Finish(i)

RaceNext == RaceDeliver \/ RaceEnsure \/ RaceWrite \/ RaceReturn

SpecRace == RaceInit /\ [][RaceNext]_vars

\* ------------------------------------------------------------------------
\* Properties
\* ------------------------------------------------------------------------
\* the NDJSON content of every stored object
Ndjson(store) == {<<k, store[k].data>> : k \in DOMAIN store}

TargetOf(w) == <<w.container, w.blob>>

\* the objects a run leaves behind: for every target the last content written
Objects(writes) ==
    {<<TargetOf(writes[k]), writes[k].data>> :
        k \in {j \in DOMAIN writes :
                 \A l \in DOMAIN writes : TargetOf(writes[l]) = TargetOf(writes[j]) => l <= j}}

LineOf(v, k) ==
    LineObj(v.records[k], v.now_utc, v.partition_id, v.offset, v.sequence_number)

Lines(v) == [k \in DOMAIN v.records |-> LineOf(v, k)]

RECURSIVE SumLens(_)
SumLens(groups) ==
    IF groups = <<>> THEN 0 ELSE Len(Head(groups).recs) + SumLens(Tail(groups))

\* C1: a batch delivered twice with the same payload and the same metadata
\* writes the same keys with the same NDJSON content both times, and the
\* stored objects after the second run are those after the first.
C1_RetryIdempotent ==
    LET v == inv["i1"]
    IN  (v.pc = "done" /\ v.completed = 2) =>
            /\ Objects(v.writes) = Objects(v.first.writes)
            /\ Ndjson(blobs) = Ndjson(v.first.blobs)

\* C2: two records of one batch with the same tenant whose timestamps lie in
\* different hours are never in one Group and never in one stored object.
C2_EventTimeRouting ==
    \A i \in Invocations :
        LET v == inv[i]
        IN  \A a, b \in DOMAIN v.records :
                LET ta == extract_record_time(v.records[a])
                    tb == extract_record_time(v.records[b])
                    la == LineOf(v, a)
                    lb == LineOf(v, b)
                IN  (/\ ta.some /\ tb.some
                     /\ la.fqdn = lb.fqdn
                     /\ UtcHour(ta.v) # UtcHour(tb.v)) =>
                        /\ \A g \in DOMAIN v.groups :
                              ~({la, lb} \subseteq Range(v.groups[g].recs))
                        /\ \A k \in DOMAIN blobs :
                              ~({OutputObj(la), OutputObj(lb)} \subseteq Range(blobs[k].data))

\* C3: within one invocation no two Groups are written to the same
\* (container, blob name): no upload replaces the object of another Group.
C3_OneObjectPerGroup ==
    \A i \in Invocations :
        \A a, b \in DOMAIN inv[i].writes :
            a # b => TargetOf(inv[i].writes[a]) # TargetOf(inv[i].writes[b])

CallsFor(v, f) == Cardinality({k \in DOMAIN v.creates : v.creates[k].fqdn = f})
GroupsOf(v, f) == Cardinality({k \in DOMAIN v.groups : v.groups[k].key[1] = f})

\* C4 as stated: in one invocation ensure_container is called at most once
\* for a tenant.
C4_EnsureOncePerTenant ==
    \A i \in Invocations :
        \A k \in DOMAIN inv[i].creates : CallsFor(inv[i], inv[i].creates[k].fqdn) <= 1

\* C4 as amended: ensure_container is called once per Group: the k-th call
\* is made for the k-th Group, and an invocation that reaches its log line
\* has made as many calls for a tenant as the tenant has Groups.
C4_EnsureOncePerGroup ==
    \A i \in Invocations :
        LET v == inv[i]
        IN  /\ Len(v.creates) <= Len(v.groups)
            /\ \A k \in DOMAIN v.creates :
                  /\ v.creates[k].fqdn = v.groups[k].key[1]
                  /\ v.creates[k].container = ContainerOf(v.groups[k])
            /\ v.pc \in {"log", "done"} =>
                  \A k \in DOMAIN v.groups :
                      CallsFor(v, v.groups[k].key[1]) = GroupsOf(v, v.groups[k].key[1])

\* C4 witness: a tenant with records in two hour buckets, ensured twice
C4_Witness ==
    LET v == inv["i1"]
    IN  /\ v.pc = "done"
        /\ \E a, b \in DOMAIN v.groups :
              /\ a # b
              /\ v.groups[a].key[1] = v.groups[b].key[1]
              /\ CallsFor(v, v.groups[a].key[1]) = 2

\* C5: extract_records returns at least one Record for every payload, and
\* the single Record {"_raw": text} for text that is no JSON list or mapping.
C5_NeverEmpty ==
    \A i \in Invocations :
        LET v == inv[i]
        IN  v.pc # "idle" =>
              /\ v.records # <<>>
              /\ (~v.payload.json \/ v.payload.obj.t \notin {"list", "dict"}) =>
                    v.records = <<"_raw" :> v.payload.text>>

\* C7: with no storage destination configured no invocation of main
\* completes.
C7_MisconfigurationFatal ==
    config = "none" => \A i \in Invocations : inv[i].pc # "done"

\* C8: whatever the interleaving of invocations, ensure_container returns
\* normally, the container exists afterwards, and no invocation fails.
C8_EnsureRaceSafe ==
    \A i \in Invocations :
        LET v == inv[i]
        IN  /\ v.pc # "failed"
            /\ v.err = None
            /\ \A k \in DOMAIN v.creates : v.creates[k].container \in containers
            /\ v.pc = "upload" => ContainerOf(Group(v)) \in containers

\* C8 witness: two invocations in flight that ensured the same container: one created
\* it, the other found it there
C8_Witness ==
    \E i, j \in Invocations :
        /\ i # j
        /\ inv[i].pc = "upload" /\ inv[j].pc = "upload"
        /\ \E a \in DOMAIN inv[i].creates, b \in DOMAIN inv[j].creates :
              /\ inv[i].creates[a].container = inv[j].creates[b].container
              /\ inv[i].creates[a].existed
              /\ ~inv[j].creates[b].existed

\* C9: after the grouping loop the Groups partition the records: the keys
\* are distinct, every Group holds exactly the records of its key in arrival
\* order, every record's key has a Group, and the sizes add up.
C9_GroupsPartitionRecords ==
    \A i \in Invocations :
        LET v == inv[i]
            lines == Lines(v)
        IN  v.pc # "idle" =>
              /\ \A a, b \in DOMAIN v.groups :
                    a # b => v.groups[a].key # v.groups[b].key
              /\ \A g \in DOMAIN v.groups :
                    /\ v.groups[g].recs # <<>>
                    /\ v.groups[g].recs =
                          SelectSeq(lines, LAMBDA l : GroupKey(l) = v.groups[g].key)
              /\ \A k \in DOMAIN lines :
                    \E g \in DOMAIN v.groups : GroupKey(lines[k]) = v.groups[g].key
              /\ SumLens(v.groups) = Len(v.records)

\* C9 witness: three records, the first and the third of one Group, the second of another
C9_Witness ==
    LET v == inv["i1"]
        lines == Lines(v)
    IN  /\ v.pc # "idle"
        /\ Len(v.records) = 3
        /\ Len(v.groups) = 2
        /\ lines[1] # lines[3]
        /\ v.groups[1].recs = <<lines[1], lines[3]>>
        /\ v.groups[2].recs = <<lines[2]>>

\* C10: a storage error ends the invocation with the earlier Groups written
\* and the others not; and when a replay of the batch completes, the stored
\* objects are exactly those of one successful invocation.
C10_ReplayConverges ==
    LET v == inv["i1"]
    IN  /\ (v.pc = "failed" /\ v.err = "HttpResponseError") =>
              Len(v.writes) = v.gi - 1
        /\ (v.pc = "done" /\ v.completed = 1) =>
              Ndjson(blobs) = Objects(v.writes)

====
